---- MODULE Spec2Model ----
(***************************************************************************)
(* Model of poc-auth-anomaly/src/generate_synthetic_auth_logs.py: the      *)
(* sampling primitives (weighted_choice, random_ip_from_cidr,              *)
(* random_timestamp), generate_normal_events, inject_anomalies, write_csv  *)
(* and main.                                                               *)
(*                                                                         *)
(* Conventions.                                                            *)
(*  - An instant (datetime) is an integer count of clock ticks since       *)
(*    midnight of day 0, UTC; a second has SubSec ticks (Python: 10^6).    *)
(*  - A timestamp_utc string, isoformat(timespec="seconds"), denotes a     *)
(*    whole number of seconds: it is modelled by that number.              *)
(*  - rng.random() is modelled in thousandths: p \in 0..999 stands for     *)
(*    p/1000, and a probability 0.97 for 970.  Weights are kept in         *)
(*    thousandths too.                                                     *)
(*  - An address integer (32 or 128 bits) is kept as its big-endian        *)
(*    sequence of 16-bit groups; an address string as its sequence of      *)
(*    octets (IPv4, dotted quad) or of hextets (IPv6).                     *)
(*  - Every rng call is a nondeterministic choice (\E) over sampled        *)
(*    values of its range.                                                 *)
(***************************************************************************)
EXTENDS Integers, Sequences, FiniteSets, Bags, TLC

VARIABLES
  pc,         \* position in main / in the function under study
  rows,       \* args.rows
  days,       \* args.days
  end,        \* main: end = datetime.now(timezone.utc)
  start,      \* main: start = end - timedelta(days=args.days)
  events,     \* generate_normal_events: results; inject_anomalies: events
  anomalies,  \* inject_anomalies: anomalies
  base,       \* inject_anomalies: base (brute-force scenario)
  brute_ip,   \* inject_anomalies: brute_ip
  i,          \* loop index of the running for loop
  combined,   \* inject_anomalies: combined;  main: combined
  csv,        \* write_csv: the rows written, each in fieldnames order
  call        \* the last call of a sampling primitive: arguments and result

vars == <<pc, rows, days, end, start, events, anomalies, base, brute_ip, i, combined, csv, call>>

\* ------------------------------------------------------------------ bounds

\* largest args.rows explored
MaxRows == 2
\* clock ticks per second (resolution of the modelled datetime)
SubSec == 2
\* values sampled at each end of a randint(lo, hi) range of addresses
EdgeDraws == 2
\* largest weight of a weighted_choice list under study
MaxWeight == 2
\* largest args.rows explored when generate_normal_events is studied alone
MaxRowsNormal == 1

None == "None"

\* ------------------------------------------------------------ time algebra

Second == SubSec
Minute == 60 * Second
Hour == 60 * Minute
Day == 24 * Hour

\* datetime.timedelta(days=d, hours=h, minutes=m, seconds=s)
timedelta(d, h, m, s) == d * Day + h * Hour + m * Minute + s * Second

\* t.astimezone(timezone.utc).isoformat(timespec="seconds"): t is already
\* UTC; the fractional second is cut off, not rounded.
isoformat(t) == t \div SubSec

\* the instant a timestamp_utc string parses to
fromisoformat(ts) == ts * Second

\* int((end - start).total_seconds()), for end >= start
total_seconds(s, e) == (e - s) \div SubSec

\* base.replace(hour=h, minute=m, second=s): date and microsecond are kept
replace(b, h, m, s) == (b - (b % Day)) + timedelta(0, h, m, s) + (b % Second)

\* random_timestamp with its draws: off = rng.randint(0, total_seconds),
\* p = rng.random(), hour, minute, second = the three rng.randint calls
random_timestamp(s, prefer_hours, off, p, hour, minute, second) ==
  LET b == s + timedelta(0, 0, 0, off) IN
  IF prefer_hours = None THEN b
  ELSE IF p < 800 THEN replace(b, hour, minute, second)
  ELSE b

\* --------------------------------------------------------- weighted_choice

RECURSIVE total(_)
total(items) ==
  IF items = <<>> THEN 0 ELSE items[1][2] + total(Tail(items))

\* walk with the comparison made strict (upto > r)
RECURSIVE walk_strict(_, _, _, _)
walk_strict(items, k, upto, r) ==
  IF k > Len(items)
  THEN IF items = <<>>
       THEN [kind |-> "raise", value |-> "IndexError", line |-> 42]
       ELSE [kind |-> "return", value |-> items[Len(items)][1], line |-> 42]
  ELSE LET up == upto + items[k][2] * 1000 IN
       IF up > r
       THEN [kind |-> "return", value |-> items[k][1], line |-> 41]
       ELSE walk_strict(items, k + 1, up, r)

\* the for loop of weighted_choice from item k on, and the statement after
\* it; upto and r are in millionths (weight thousandths times 1000)
RECURSIVE walk(_, _, _, _)
walk(items, k, upto, r) ==
  IF k > Len(items)
  THEN IF items = <<>>
       THEN [kind |-> "raise", value |-> "IndexError", line |-> 42]
       ELSE [kind |-> "return", value |-> items[Len(items)][1], line |-> 42]
  ELSE LET up == upto + items[k][2] * 1000 IN
       IF up >= r
       THEN [kind |-> "return", value |-> items[k][1], line |-> 41]
       ELSE walk(items, k + 1, up, r)

\* weighted_choice(rng, items) with p = rng.random()
weighted_choice(p, items) == walk(items, 1, 0, p * total(items))

\* ----------------------------------------------------- random_ip_from_cidr

RECURSIVE Pow2(_)
Pow2(n) == IF n = 0 THEN 1 ELSE 2 * Pow2(n - 1)

\* ipaddress.ip_network("a.b.c.d/p", strict=False), before masking
Cidr4(a, b, c, d, p) ==
  [version |-> 4, addr |-> <<a * 256 + b, c * 256 + d>>, prefix |-> p]

\* ipaddress.ip_network("<hextets>/p", strict=False), before masking
Cidr6(hextets, p) == [version |-> 6, addr |-> hextets, prefix |-> p]

max_prefixlen(net) == 16 * Len(net.addr)

\* host bits of the k-th 16-bit group under prefix length p (0..16)
host_bits(k, p) ==
  LET h == 16 * k - p IN IF h <= 0 THEN 0 ELSE IF h >= 16 THEN 16 ELSE h

\* net.network_address: host bits cleared (strict=False)
network_address(net) ==
  [k \in 1..Len(net.addr) |->
     net.addr[k] - (net.addr[k] % Pow2(host_bits(k, net.prefix)))]

\* net.broadcast_address: host bits set
broadcast_address(net) ==
  [k \in 1..Len(net.addr) |->
     network_address(net)[k] + Pow2(host_bits(k, net.prefix)) - 1]

\* net.num_addresses
num_addresses(net) == Pow2(max_prefixlen(net) - net.prefix)

\* a + n on address integers, 0 <= n
RECURSIVE add_at(_, _, _)
add_at(a, k, n) ==
  IF n = 0 \/ k = 0 THEN a
  ELSE LET s == a[k] + n IN
       add_at([a EXCEPT ![k] = s % 65536], k - 1, s \div 65536)

int_add(a, n) == add_at(a, Len(a), n)

\* a - n on address integers, 0 <= n <= a
RECURSIVE sub_at(_, _, _)
sub_at(a, k, n) ==
  IF n = 0 \/ k = 0 THEN a
  ELSE LET lo == n % 65536
           borrow == IF a[k] < lo THEN 1 ELSE 0 IN
       sub_at([a EXCEPT ![k] = a[k] + 65536 * borrow - lo], k - 1,
              (n \div 65536) + borrow)

int_sub(a, n) == sub_at(a, Len(a), n)

\* a <= b on address integers of the same width
RECURSIVE int_le_from(_, _, _)
int_le_from(a, b, k) ==
  IF k > Len(a) THEN TRUE
  ELSE IF a[k] < b[k] THEN TRUE
  ELSE IF a[k] > b[k] THEN FALSE
  ELSE int_le_from(a, b, k + 1)

int_le(a, b) == int_le_from(a, b, 1)

\* ip_first without the step past the network address
ip_first_network(net) == network_address(net)

\* first, of random_ip_from_cidr
ip_first(net) ==
  IF net.version = 4 /\ num_addresses(net) > 2
  THEN int_add(network_address(net), 1)
  ELSE network_address(net)

\* last, of random_ip_from_cidr
ip_last(net) ==
  IF net.version = 4 /\ num_addresses(net) > 2
  THEN int_sub(broadcast_address(net), 1)
  ELSE int_add(network_address(net), num_addresses(net) - 1)

\* str(ipaddress.ip_address(n)): dotted quad, or the eight hextets
ip_str(version, n) ==
  IF version = 4
  THEN <<n[1] \div 256, n[1] % 256, n[2] \div 256, n[2] % 256>>
  ELSE n

\* int(ipaddress.ip_address(text))
ip_int(version, text) ==
  IF version = 4
  THEN <<text[1] * 256 + text[2], text[3] * 256 + text[4]>>
  ELSE text

\* sampled values of rng.randint(lo, hi) on address integers: EdgeDraws
\* values from each end of the range
randint_addr(lo, hi) ==
  { n \in { int_add(lo, k) : k \in 0..(EdgeDraws - 1) }
            \cup { int_sub(hi, k) : k \in 0..(EdgeDraws - 1) } :
      int_le(lo, n) /\ int_le(n, hi) }

\* random_ip_from_cidr(rng, cidr) with n = rng.randint(first, last)
random_ip_from_cidr(net, n) == ip_str(net.version, n)

\* the results of random_ip_from_cidr over the sampled draws
ip_results(net) ==
  { random_ip_from_cidr(net, n) : n \in randint_addr(ip_first(net), ip_last(net)) }

\* ------------------------------------------------------- sampled rng calls

\* sampled values of rng.randint(lo, hi): how names the sample
randint(how, lo, hi) ==
  CASE how = "lo" -> {lo}
    [] how = "hi" -> {hi}
    [] how = "ends" -> {lo, hi}
    [] how = "edges" -> {lo, lo + 1, hi - 1, hi} \cap (lo..hi)
    [] how = "all" -> lo..hi

\* sampled values of rng.random(), in thousandths
random(how) ==
  CASE how = "lo" -> {0}
    [] how = "hi" -> {999}
    [] how = "ends" -> {0, 999}
    [] how = "edges" -> {0, 699, 700, 799, 800, 919, 920, 999}
    [] how = "all" -> 0..999

\* sampled values of rng.choice(seq)
choice(how, seq) ==
  CASE how = "lo" -> {seq[1]}
    [] how = "hi" -> {seq[Len(seq)]}
    [] how = "ends" -> {seq[1], seq[Len(seq)]}
    [] how \in {"edges", "all"} -> {seq[k] : k \in 1..Len(seq)}

\* sampled results of random_ip_from_cidr
random_ip(how, net) ==
  CASE how = "lo" -> {random_ip_from_cidr(net, ip_first(net))}
    [] how = "hi" -> {random_ip_from_cidr(net, ip_last(net))}
    [] how = "ends" -> {random_ip_from_cidr(net, ip_first(net)),
                        random_ip_from_cidr(net, ip_last(net))}
    [] how \in {"edges", "all"} -> ip_results(net)

\* -------------------------------------------------------------- the tables

UserProfile(username, home_country, usual_hours, success_rate, known_ip_blocks) ==
  [username |-> username, home_country |-> home_country,
   usual_hours |-> usual_hours, success_rate |-> success_rate,
   known_ip_blocks |-> known_ip_blocks]

build_user_profiles ==
  << UserProfile("alice", "US", <<8, 17>>, 970,
                 <<Cidr4(10, 10, 10, 0, 24), Cidr4(192, 168, 10, 0, 24)>>),
     UserProfile("bob", "US", <<7, 16>>, 960,
                 <<Cidr4(10, 10, 20, 0, 24), Cidr4(192, 168, 20, 0, 24)>>),
     UserProfile("carol", "CA", <<9, 18>>, 980,
                 <<Cidr4(10, 10, 30, 0, 24), Cidr4(192, 168, 30, 0, 24)>>),
     UserProfile("dave", "GB", <<6, 15>>, 950,
                 <<Cidr4(10, 10, 40, 0, 24), Cidr4(192, 168, 40, 0, 24)>>),
     UserProfile("svc_backup", "US", <<0, 23>>, 995,
                 <<Cidr4(10, 99, 0, 0, 24)>>) >>

auth_types == << <<"password", 750>>, <<"ssh_key", 180>>, <<"mfa_push", 70>> >>

event_sources ==
  << <<"linux-sshd", 450>>, <<"windows-ad", 350>>, <<"vpn-gateway", 200>> >>

user_agents ==
  << <<"OpenSSH_8.9", 350>>, <<"Windows10", 300>>, <<"macOS", 150>>,
     <<"curl/7.81", 50>>, <<"unknown", 150>> >>

alt_countries == <<"US", "CA", "GB", "DE", "FR", "AU", "JP">>

failure_reasons ==
  <<"bad_password", "mfa_denied", "user_not_found", "expired_password">>

brute_usernames == <<"alice", "bob", "dave", "unknown_user">>

brute_countries == <<"DE", "FR", "RU", "CN">>

travel_users == <<"alice", "bob">>

fieldnames ==
  <<"timestamp_utc", "username", "event_source", "auth_type", "source_ip",
    "country", "result", "failure_reason", "is_injected_anomaly">>

\* the dict literal of an event: eight keys, no is_injected_anomaly yet
event(ts, username, src, auth, ip, country, result, failure_reason) ==
  [timestamp_utc |-> ts, username |-> username, event_source |-> src,
   auth_type |-> auth, source_ip |-> ip, country |-> country,
   result |-> result, failure_reason |-> failure_reason]

\* ------------------------------------------------- generate_normal_events

\* hour preference passed to random_timestamp for user u
prefer_hours_of(u) ==
  IF u.username # "svc_backup" THEN u.usual_hours ELSE None

\* normal_event with a failure_reason drawn for every record
normal_event_reason(s, u, dts, p_src, p_auth, ip, p_country, alt, p_success, reason) ==
  LET ts == random_timestamp(s, prefer_hours_of(u), dts.off, dts.p,
                             dts.hour, dts.minute, dts.second)
      success == p_success < u.success_rate
  IN event(isoformat(ts), u.username, weighted_choice(p_src, event_sources).value,
           weighted_choice(p_auth, auth_types).value, ip,
           IF p_country < 920 THEN u.home_country ELSE alt,
           IF success THEN "SUCCESS" ELSE "FAILURE", reason)

\* one iteration of the for loop, given its draws.  The user-agent draw
\* (ua) is consumed and never stored: it has no effect on the record.
normal_event(s, u, dts, p_src, p_auth, ip, p_country, alt, p_success, reason) ==
  LET ts == random_timestamp(s, prefer_hours_of(u), dts.off, dts.p,
                             dts.hour, dts.minute, dts.second)
      src == weighted_choice(p_src, event_sources).value
      auth == weighted_choice(p_auth, auth_types).value
      country == IF p_country < 920 THEN u.home_country ELSE alt
      success == p_success < u.success_rate
  IN event(isoformat(ts), u.username, src, auth, ip, country,
           IF success THEN "SUCCESS" ELSE "FAILURE",
           IF success THEN "" ELSE reason)

\* the draws of random_timestamp(rng, start, end, prefer_hours) under a
\* sampling plan D
timestamp_draws(D, s, e, prefer_hours) ==
  IF prefer_hours = None
  THEN { [off |-> off, p |-> 0, hour |-> 0, minute |-> 0, second |-> 0] :
           off \in randint(D.off, 0, total_seconds(s, e)) }
  ELSE { [off |-> off, p |-> 999, hour |-> 0, minute |-> 0, second |-> 0] :
           off \in randint(D.off, 0, total_seconds(s, e)) }
       \cup
       { [off |-> off, p |-> 0, hour |-> h, minute |-> ms[1], second |-> ms[2]] :
           off \in randint(D.off, 0, total_seconds(s, e)),
           h \in randint(D.hour, prefer_hours[1], prefer_hours[2]),
           ms \in {<<m, m>> : m \in randint(D.minsec, 0, 59)} }

\* the records one loop iteration can append under sampling plan D
normal_events_of(D, s, e) ==
  UNION { { normal_event(s, u, dts, p_src, p_auth, ip, p_country, alt, p_success, reason) :
              dts \in timestamp_draws(D, s, e, prefer_hours_of(u)),
              p_src \in random(D.src), p_auth \in random(D.auth),
              ip \in UNION { random_ip(D.ip, blk) : blk \in choice(D.block, u.known_ip_blocks) },
              p_country \in random(D.country), alt \in choice(D.alt, alt_countries),
              p_success \in random(D.success), reason \in choice(D.reason, failure_reasons) } :
          u \in choice(D.user, build_user_profiles) }

\* for _ in range(n): ... results.append({...})
NormalIteration(D) ==
  /\ pc = "normal"
  /\ i < rows
  /\ \E ev \in normal_events_of(D, start, end) : events' = Append(events, ev)
  /\ i' = i + 1
  /\ UNCHANGED <<pc, rows, days, end, start, anomalies, base, brute_ip, combined, csv, call>>

\* generate_normal_events returns; main calls inject_anomalies
NormalReturn ==
  /\ pc = "normal"
  /\ i = rows
  /\ pc' = "travel"
  /\ i' = 1
  /\ UNCHANGED <<rows, days, end, start, events, anomalies, base, brute_ip, combined, csv, call>>

\* ------------------------------------------------------- inject_anomalies

victim == "carol"

\* travel_events with the second login left out
travel_events_single(s, user, hours, minutes, ip1, ip2) ==
  << event(isoformat(s + timedelta(0, hours, 0, 0)), user, "vpn-gateway",
           "password", ip1, "US", "SUCCESS", "") >>

\* travel_events with the second login before the first
travel_events_back(s, user, hours, minutes, ip1, ip2) ==
  LET t1 == s + timedelta(0, hours, 0, 0)
      t2 == t1 - timedelta(0, 0, minutes, 0)
  IN << event(isoformat(t1), user, "vpn-gateway", "password", ip1, "US", "SUCCESS", ""),
        event(isoformat(t2), user, "vpn-gateway", "password", ip2, "JP", "SUCCESS", "") >>

\* the two records of one impossible-travel iteration
travel_events(s, user, hours, minutes, ip1, ip2) ==
  LET t1 == s + timedelta(0, hours, 0, 0)
      t2 == t1 + timedelta(0, 0, minutes, 0)
  IN << event(isoformat(t1), user, "vpn-gateway", "password", ip1, "US", "SUCCESS", ""),
        event(isoformat(t2), user, "vpn-gateway", "password", ip2, "JP", "SUCCESS", "") >>

\* 1) for user in ["alice", "bob"]: ...
ImpossibleTravel(D) ==
  /\ pc = "travel"
  /\ \E hours \in randint(D.travel_hours, 10, 40),
        minutes \in randint(D.travel_minutes, 5, 35),
        ip1 \in random_ip(D.ip, Cidr4(203, 0, 113, 0, 24)),
        ip2 \in random_ip(D.ip, Cidr4(198, 51, 100, 0, 24)) :
       anomalies' = anomalies \o travel_events(start, travel_users[i], hours, minutes, ip1, ip2)
  /\ IF i < Len(travel_users)
     THEN pc' = pc /\ i' = i + 1
     ELSE pc' = "brute" /\ i' = 0
  /\ UNCHANGED <<rows, days, end, start, events, base, brute_ip, combined, csv, call>>

\* brute_base counted back from end instead of on from start
brute_base_from_end(s, hours) == end - timedelta(0, hours, 0, 0)

\* base = start + timedelta(hours=rng.randint(60, 90))
brute_base(s, hours) == s + timedelta(0, hours, 0, 0)

\* the record of iteration j of for i in range(12), with its draws
\* d = [p |-> rng.random(), alt |-> rng.choice(names), country |-> rng.choice(...)]
brute_failure(b, ip, j, d) ==
  event(isoformat(b + timedelta(0, 0, j, 0)),
        IF d.p < 700 THEN victim ELSE d.alt,
        "linux-sshd", "password", ip, d.country, "FAILURE", "bad_password")

\* brute_success one minute after the last failure instead of two
brute_success_early(b, ip, country) ==
  event(isoformat(b + timedelta(0, 0, 12, 0)), victim,
        "linux-sshd", "password", ip, country, "SUCCESS", "")

\* the record appended after the loop
brute_success(b, ip, country) ==
  event(isoformat(b + timedelta(0, 0, 13, 0)), victim,
        "linux-sshd", "password", ip, country, "SUCCESS", "")

\* the draws of the twelve iterations, as a sequence: sampled vectors in
\* which the iterations of a set S draw p >= 0.7 and the others p < 0.7
brute_draws(how) ==
  LET vec(S, alt, c) ==
        [j \in 1..12 |-> [p |-> IF j \in S THEN 999 ELSE 0, alt |-> alt, country |-> c]]
  IN CASE how = "lo" -> { vec({}, "alice", "DE") }
       [] how = "ends" -> { vec(S, "alice", "DE") : S \in {{}, 1..12} }
       [] how \in {"edges", "all"} ->
            { vec(S, alt, c) : S \in {{}, {1}, {12}, {2, 3}, 1..12},
                               alt \in choice("all", brute_usernames),
                               c \in choice("hi", brute_countries) }

\* 2) brute-force then success
BruteForce(D) ==
  /\ pc = "brute"
  /\ \E hours \in randint(D.brute_hours, 60, 90),
        ip \in random_ip(D.brute_ip, Cidr4(45, 33, 0, 0, 16)),
        dv \in brute_draws(D.brute),
        country \in choice(D.brute_country, brute_countries) :
       /\ base' = brute_base(start, hours)
       /\ brute_ip' = ip
       /\ anomalies' = anomalies
                       \o [j \in 1..12 |-> brute_failure(base', ip, j - 1, dv[j])]
                       \o << brute_success(base', ip, country) >>
  /\ pc' = "offhours"
  /\ UNCHANGED <<rows, days, end, start, events, i, combined, csv, call>>

off_hours_event(s, minutes, ip) ==
  event(isoformat(s + timedelta(2, 3, minutes, 0)), "dave", "windows-ad",
        "mfa_push", ip, "AU", "SUCCESS", "")

\* 3) off-hours admin-ish behavior
OffHours(D) ==
  /\ pc = "offhours"
  /\ \E minutes \in randint(D.minutes, 0, 59),
        ip \in random_ip(D.ip, Cidr4(198, 18, 0, 0, 15)) :
       anomalies' = Append(anomalies, off_hours_event(start, minutes, ip))
  /\ pc' = "service"
  /\ UNCHANGED <<rows, days, end, start, events, base, brute_ip, i, combined, csv, call>>

service_account_event(s, minutes, ip) ==
  event(isoformat(s + timedelta(1, 12, minutes, 0)), "svc_backup", "linux-sshd",
        "ssh_key", ip, "US", "SUCCESS", "")

\* 4) service account from a new IP block
ServiceAccount(D) ==
  /\ pc = "service"
  /\ \E minutes \in randint(D.minutes, 0, 59),
        ip \in random_ip(D.ip, Cidr4(172, 31, 0, 0, 16)) :
       anomalies' = Append(anomalies, service_account_event(start, minutes, ip))
  /\ pc' = "tag"
  /\ UNCHANGED <<rows, days, end, start, events, base, brute_ip, i, combined, csv, call>>

\* r["is_injected_anomaly"] = flag
tag(r, flag) == [is_injected_anomaly |-> flag] @@ r

\* the two tagging loops
Tag ==
  /\ pc = "tag"
  /\ anomalies' = [k \in 1..Len(anomalies) |-> tag(anomalies[k], "true")]
  /\ events' = [k \in 1..Len(events) |-> tag(events[k], "false")]
  /\ pc' = "shuffle"
  /\ UNCHANGED <<rows, days, end, start, base, brute_ip, i, combined, csv, call>>

\* shuffle_from with an assignment in place of the swap
RECURSIVE shuffle_from_copy(_, _, _)
shuffle_from_copy(x, k, j) ==
  IF k < 2 THEN x
  ELSE shuffle_from_copy([x EXCEPT ![k] = x[j[k]]], k - 1, j)

\* random.shuffle(x): for k from the last index down to the second, swap
\* x[k] with x[j[k]], j[k] = the index drawn in 1..k
RECURSIVE shuffle_from(_, _, _)
shuffle_from(x, k, j) ==
  IF k < 2 THEN x
  ELSE shuffle_from([x EXCEPT ![k] = x[j[k]], ![j[k]] = x[k]], k - 1, j)

shuffle(x, j) == shuffle_from(x, Len(x), j)

\* sampled draw vectors of a shuffle of n elements
shuffle_draws(how, n) ==
  CASE how = "lo" -> { [k \in 1..n |-> 1] }
    [] how = "hi" -> { [k \in 1..n |-> k] }
    [] how = "ends" -> { [k \in 1..n |-> 1], [k \in 1..n |-> k] }
    [] how \in {"edges", "all"} ->
         { [k \in 1..n |-> 1], [k \in 1..n |-> k], [k \in 1..n |-> (k \div 2) + 1],
           [k \in 1..n |-> IF k > 1 THEN k - 1 ELSE 1] }

\* combined = events + anomalies; rng.shuffle(combined); return combined
Shuffle(D) ==
  /\ pc = "shuffle"
  /\ \E j \in shuffle_draws(D.shuffle, Len(events) + Len(anomalies)) :
       combined' = shuffle(events \o anomalies, j)
  /\ pc' = "write"
  /\ UNCHANGED <<rows, days, end, start, events, anomalies, base, brute_ip, i, csv, call>>

\* ---------------------------------------------------------------- write_csv

\* for k in fieldnames: r.setdefault(k, "")
setdefaults(r) ==
  r @@ [k \in {fieldnames[n] : n \in 1..Len(fieldnames)} |-> ""]

\* w.writerow({k: r.get(k, "") for k in fieldnames})
writerow(r) ==
  [n \in 1..Len(fieldnames) |->
     IF fieldnames[n] \in DOMAIN r THEN r[fieldnames[n]] ELSE ""]

\* write_csv(out_path, combined), then main returns 0.  The dicts of
\* combined are those of events and anomalies: setdefault acts on them all.
WriteCsv ==
  /\ pc = "write"
  /\ combined' = [k \in 1..Len(combined) |-> setdefaults(combined[k])]
  /\ events' = [k \in 1..Len(events) |-> setdefaults(events[k])]
  /\ anomalies' = [k \in 1..Len(anomalies) |-> setdefaults(anomalies[k])]
  /\ csv' = [k \in 1..Len(combined) |-> writerow(setdefaults(combined[k]))]
  /\ pc' = "done"
  /\ UNCHANGED <<rows, days, end, start, base, brute_ip, i, call>>

\* ------------------------------------------------- the sampling primitives

labels == <<"A", "B", "C">>

\* the lists weighted_choice is studied on: the three tables of the
\* program, and every list of up to three labels with weights 1..MaxWeight
\* (the empty list included)
wc_lists ==
  {auth_types, event_sources, user_agents}
  \cup UNION { { [k \in 1..n |-> <<labels[k], w[k]>>] : w \in [1..n -> 1..MaxWeight] } :
               n \in 0..Len(labels) }

\* a call weighted_choice(rng, items), p = the value of rng.random()
CallWeightedChoice ==
  /\ pc = "call"
  /\ \E items \in wc_lists, p \in random("all") :
       call' = [fn |-> "weighted_choice", items |-> items, p |-> p,
                result |-> weighted_choice(p, items)]
  /\ pc' = "returned"
  /\ UNCHANGED <<rows, days, end, start, events, anomalies, base, brute_ip, i, combined, csv>>

\* the blocks of the program
program_cidrs ==
  UNION { { u.known_ip_blocks[k] : k \in 1..Len(u.known_ip_blocks) } :
          u \in choice("all", build_user_profiles) }
  \cup { Cidr4(203, 0, 113, 0, 24), Cidr4(198, 51, 100, 0, 24), Cidr4(45, 33, 0, 0, 16),
         Cidr4(198, 18, 0, 0, 15), Cidr4(172, 31, 0, 0, 16) }

\* the blocks random_ip_from_cidr is studied on: those of the program, and
\* IPv4 and IPv6 blocks down to a single address, host bits set or not
cidr_inputs ==
  program_cidrs
  \cup { Cidr4(192, 0, 2, d, p) : d \in {0, 77, 255}, p \in {24, 29, 30, 31, 32} }
  \cup { Cidr4(10, 255, 255, 255, p) : p \in {8, 16, 31, 32} }
  \cup { Cidr6(<<8193, 3512, 0, 0, 0, 0, 65535, d>>, p) :
           d \in {0, 5, 65535}, p \in {112, 126, 127, 128} }

\* a call random_ip_from_cidr(rng, cidr), n = the value of rng.randint
CallRandomIp ==
  /\ pc = "call"
  /\ \E net \in cidr_inputs :
       \E n \in randint_addr(ip_first(net), ip_last(net)) :
         call' = [fn |-> "random_ip_from_cidr", net |-> net,
                  result |-> random_ip_from_cidr(net, n)]
  /\ pc' = "returned"
  /\ UNCHANGED <<rows, days, end, start, events, anomalies, base, brute_ip, i, combined, csv>>

\* ------------------------------------------------------------ sampling plans

\* main, end to end: few draws at each call
PlanMain ==
  [user |-> "ends", off |-> "lo", hour |-> "lo", minsec |-> "lo", src |-> "lo",
   auth |-> "lo", block |-> "lo", ip |-> "lo", country |-> "lo", alt |-> "lo",
   success |-> "ends", reason |-> "ends",
   travel_hours |-> "lo", travel_minutes |-> "lo", brute_hours |-> "lo",
   brute_ip |-> "lo", brute |-> "ends", brute_country |-> "lo", minutes |-> "lo",
   shuffle |-> "edges"]

\* generate_normal_events: the draws of random_timestamp at their edges
PlanNormal ==
  [user |-> "all", off |-> "edges", hour |-> "ends", minsec |-> "ends", src |-> "ends",
   auth |-> "lo", block |-> "lo", ip |-> "lo", country |-> "lo", alt |-> "lo",
   success |-> "lo", reason |-> "lo",
   travel_hours |-> "lo", travel_minutes |-> "lo", brute_hours |-> "lo",
   brute_ip |-> "lo", brute |-> "lo", brute_country |-> "lo", minutes |-> "lo",
   shuffle |-> "lo"]

\* inject_anomalies: the draws of the four scenarios at their ends
PlanInject ==
  [user |-> "lo", off |-> "lo", hour |-> "lo", minsec |-> "lo", src |-> "lo",
   auth |-> "lo", block |-> "lo", ip |-> "lo", country |-> "lo", alt |-> "lo",
   success |-> "lo", reason |-> "lo",
   travel_hours |-> "ends", travel_minutes |-> "ends", brute_hours |-> "ends",
   brute_ip |-> "ends", brute |-> "all", brute_country |-> "lo", minutes |-> "ends",
   shuffle |-> "lo"]

\* ------------------------------------------------------------------- main

\* sampled values of datetime.now(timezone.utc): day 10 at the given
\* times of day, on a whole second and just before the next one
now_draws(times) ==
  { timedelta(10, t[1], t[2], t[3]) + f : t \in times, f \in {0, SubSec - 1} }

\* the state main reaches before it calls generate_normal_events
InitMain(rowset, dayset, nowset) ==
  /\ pc = "normal"
  /\ rows \in rowset
  /\ days \in dayset
  /\ end \in nowset
  /\ start = end - timedelta(days, 0, 0, 0)
  /\ events = <<>>
  /\ anomalies = <<>>
  /\ base = None
  /\ brute_ip = None
  /\ i = 0
  /\ combined = <<>>
  /\ csv = <<>>
  /\ call = [fn |-> "none"]

\* main from args and the clock to the written file
Init == InitMain(0..MaxRows, {7}, now_draws({<<12, 30, 15>>}))

Next ==
  \/ NormalIteration(PlanMain)
  \/ NormalReturn
  \/ ImpossibleTravel(PlanMain)
  \/ BruteForce(PlanMain)
  \/ OffHours(PlanMain)
  \/ ServiceAccount(PlanMain)
  \/ Tag
  \/ Shuffle(PlanMain)
  \/ WriteCsv

Spec == Init /\ [][Next]_vars

\* generate_normal_events alone
InitNormal ==
  InitMain(0..MaxRowsNormal, {1, 7},
           now_draws({<<3, 0, 0>>, <<12, 30, 15>>, <<23, 59, 59>>}))

NextNormal ==
  \/ NormalIteration(PlanNormal)
  \/ NormalReturn

SpecNormal == InitNormal /\ [][NextNormal]_vars

\* inject_anomalies on the events of a run with rows = 0
InitInject ==
  InitMain({0}, {2, 3, 4}, now_draws({<<12, 30, 15>>}))

NextInject ==
  \/ NormalReturn
  \/ ImpossibleTravel(PlanInject)
  \/ BruteForce(PlanInject)
  \/ OffHours(PlanInject)
  \/ ServiceAccount(PlanInject)
  \/ Tag
  \/ Shuffle(PlanInject)

SpecInject == InitInject /\ [][NextInject]_vars

\* the sampling primitives, called on their own
InitCall ==
  /\ pc = "call"
  /\ rows = 0
  /\ days = 0
  /\ end = 0
  /\ start = 0
  /\ events = <<>>
  /\ anomalies = <<>>
  /\ base = None
  /\ brute_ip = None
  /\ i = 0
  /\ combined = <<>>
  /\ csv = <<>>
  /\ call = [fn |-> "none"]

SpecWeightedChoice == InitCall /\ [][CallWeightedChoice]_vars

SpecRandomIp == InitCall /\ [][CallRandomIp]_vars

\* ------------------------------------------------------------ properties

data_fields ==
  {"timestamp_utc", "username", "event_source", "auth_type", "source_ip",
   "country", "result", "failure_reason"}

\* the eight data fields of a record
Data(r) == [f \in data_fields |-> r[f]]

\* a sequence as a bag
BagOf(seq) ==
  [x \in {seq[k] : k \in 1..Len(seq)} |->
     Cardinality({k \in 1..Len(seq) : seq[k] = x})]

\* main has the combined sequence in hand
Returned == pc \in {"write", "done"}

Injected == {k \in 1..Len(combined) : combined[k].is_injected_anomaly = "true"}

Normal == {k \in 1..Len(combined) : combined[k].is_injected_anomaly = "false"}

TravelRows == {k \in Injected : combined[k].event_source = "vpn-gateway"}

BruteRows ==
  {k \in Injected : combined[k].event_source = "linux-sshd"
                    /\ combined[k].auth_type = "password"}

OffHoursRows == {k \in Injected : combined[k].event_source = "windows-ad"}

ServiceRows ==
  {k \in Injected : combined[k].event_source = "linux-sshd"
                    /\ combined[k].auth_type = "ssh_key"}

\* the instant recorded in row k of combined
At(k) == fromisoformat(combined[k].timestamp_utc)

\* C1: the sequence inject_anomalies returns has rows + 19 records, each
\* flagged "true" or "false": 19 "true" (4 impossible-travel, 13
\* brute-force, 1 off-hours, 1 service-account) and rows "false"; the
\* file written has as many rows, flagged alike.
C1_RowCounts ==
  /\ Returned =>
       /\ Len(combined) = rows + 19
       /\ \A k \in 1..Len(combined) :
            /\ "is_injected_anomaly" \in DOMAIN combined[k]
            /\ combined[k].is_injected_anomaly \in {"true", "false"}
       /\ Cardinality(Injected) = 19
       /\ Cardinality(Normal) = rows
       /\ Cardinality(TravelRows) = 4
       /\ Cardinality(BruteRows) = 13
       /\ Cardinality(OffHoursRows) = 1
       /\ Cardinality(ServiceRows) = 1
  /\ pc = "done" =>
       /\ Len(csv) = rows + 19
       /\ Cardinality({k \in 1..Len(csv) : csv[k][9] = "true"}) = 19
       /\ Cardinality({k \in 1..Len(csv) : csv[k][9] = "false"}) = rows

\* a run with normal rows has written its file
C1_Witness == pc = "done" /\ rows > 0 /\ Len(csv) = rows + 19

\* result and failure_reason of a record agree
ReasonAgrees(result, failure_reason) ==
  /\ result \in {"SUCCESS", "FAILURE"}
  /\ (failure_reason = "") <=> (result = "SUCCESS")

\* C2: in every record, normal or injected, at every stage and in the
\* file, result is SUCCESS or FAILURE and failure_reason is empty exactly
\* when result is SUCCESS.
C2_FailureReason ==
  /\ \A k \in 1..Len(events) : ReasonAgrees(events[k].result, events[k].failure_reason)
  /\ \A k \in 1..Len(anomalies) :
       ReasonAgrees(anomalies[k].result, anomalies[k].failure_reason)
  /\ \A k \in 1..Len(combined) :
       ReasonAgrees(combined[k].result, combined[k].failure_reason)
  /\ \A k \in 1..Len(csv) : ReasonAgrees(csv[k][7], csv[k][8])

\* the file holds a failed and a successful normal row
C2_Witness ==
  /\ pc = "done"
  /\ \E k \in 1..Len(csv) : csv[k][9] = "false" /\ csv[k][7] = "FAILURE" /\ csv[k][8] # ""
  /\ \E k \in 1..Len(csv) : csv[k][9] = "false" /\ csv[k][7] = "SUCCESS" /\ csv[k][8] = ""

\* C3 (as claimed): every normal row's timestamp_utc lies in [start, end],
\* here compared at the second precision of the column, which the claim
\* implies.
C3_NormalInWindow ==
  \A k \in 1..Len(events) :
    /\ isoformat(start) <= events[k].timestamp_utc
    /\ events[k].timestamp_utc <= isoformat(end)

\* the 2 impossible-travel rows of user u are a US login and a JP login 5
\* to 35 minutes later
TravelPair(u) ==
  \E a \in TravelRows, b \in TravelRows :
    /\ {k \in TravelRows : combined[k].username = u} = {a, b}
    /\ a # b
    /\ combined[a].country = "US"
    /\ combined[b].country = "JP"
    /\ combined[b].timestamp_utc - combined[a].timestamp_utc \in (5 * 60)..(35 * 60)
    /\ combined[b].timestamp_utc - combined[a].timestamp_utc <= 40 * 60

\* C4 (as claimed): alice and bob each have exactly 2 rows in the injected
\* set, a US login then a JP login 5 to 35 minutes later.
C4_TravelExactlyTwo ==
  Returned =>
    \A n \in 1..Len(travel_users) :
      /\ Cardinality({k \in Injected : combined[k].username = travel_users[n]}) = 2
      /\ TravelPair(travel_users[n])

\* C4 (amended): alice and bob each have exactly 2 impossible-travel rows
\* (event_source vpn-gateway) in the injected set, a US login then a JP
\* login 5 to 35 minutes later; any further injected row with their
\* username is a FAILURE row of the brute-force scenario.
C4_TravelPairs ==
  Returned =>
    \A n \in 1..Len(travel_users) :
      /\ TravelPair(travel_users[n])
      /\ \A k \in Injected \ TravelRows :
           combined[k].username = travel_users[n] =>
             k \in BruteRows /\ combined[k].result = "FAILURE"

\* alice has a third injected row
C4_Witness ==
  /\ Returned
  /\ Cardinality({k \in Injected : combined[k].username = "alice"}) > 2
  /\ TravelPair("alice")

\* C5: the 13 brute-force rows share the one source_ip drawn from
\* 45.33.0.0/16; 12 are FAILURE/bad_password, one at each minute 0..11
\* after the base, and 1 is SUCCESS, 13 minutes after the base, with
\* username carol; every failure precedes the success.  Offsets are taken
\* between timestamps of second precision: the base as it is recorded.
C5_BruteForce ==
  Returned =>
    LET net == Cidr4(45, 33, 0, 0, 16)
        fails == {k \in BruteRows : combined[k].result = "FAILURE"}
        wins == {k \in BruteRows : combined[k].result = "SUCCESS"}
        offset(k) == combined[k].timestamp_utc - isoformat(base)
    IN /\ Cardinality(BruteRows) = 13
       /\ \A k \in BruteRows : combined[k].source_ip = brute_ip
       /\ network_address([net EXCEPT !.addr = ip_int(4, brute_ip)]) = network_address(net)
       /\ Cardinality(fails) = 12
       /\ \A k \in fails : combined[k].failure_reason = "bad_password"
       /\ {offset(k) : k \in fails} = {60 * m : m \in 0..11}
       /\ Cardinality(wins) = 1
       /\ \A k \in wins : offset(k) = 60 * 13 /\ combined[k].username = victim
       /\ \A f \in fails, w \in wins : At(f) < At(w)

\* a brute-force run whose failures name other users than the victim
C5_Witness ==
  /\ Returned
  /\ \E k \in BruteRows : combined[k].username = "unknown_user"
  /\ \E k \in BruteRows : combined[k].result = "SUCCESS"
  /\ base % Second # 0

\* the consequences C10 draws for the window of the run
InjectedAndWindow ==
  /\ days >= 4 => \A k \in Injected : start <= At(k) /\ At(k) <= end
  /\ days <= 2 => \A k \in BruteRows : At(k) > end

\* C10 (as claimed): every injected row's instant lies in
\* [start + 10 hours, start + 90 hours 13 minutes]; so it lies in
\* [start, end] when days >= 4, and the brute-force rows lie after end
\* when days <= 2.
C10_InjectedFromStart ==
  Returned =>
    /\ \A k \in Injected :
         /\ start + timedelta(0, 10, 0, 0) <= At(k)
         /\ At(k) <= start + timedelta(0, 90, 13, 0)
    /\ InjectedAndWindow

\* C10 (amended): every injected row's instant, which is recorded cut to
\* the whole second, lies less than a second before
\* [start + 10 hours, start + 90 hours 13 minutes] or in it; it lies in
\* [start, end] when days >= 4, and the brute-force rows lie after end
\* when days <= 2.
C10_InjectedFromStartCut ==
  Returned =>
    /\ \A k \in Injected :
         /\ start + timedelta(0, 10, 0, 0) - Second < At(k)
         /\ At(k) <= start + timedelta(0, 90, 13, 0)
    /\ InjectedAndWindow

\* a two-day window: a row recorded before start + 10 hours, and the
\* brute-force rows after end
C10_Witness ==
  /\ Returned
  /\ days <= 2
  /\ \E k \in Injected : At(k) < start + timedelta(0, 10, 0, 0)
  /\ \A k \in BruteRows : At(k) > end

\* the records of seq keep their data fields in seq2, and a record that
\* has its flag keeps it
Kept(seq, seq2) ==
  /\ Len(seq2) >= Len(seq)
  /\ \A k \in 1..Len(seq) :
       /\ Data(seq2[k]) = Data(seq[k])
       /\ "is_injected_anomaly" \in DOMAIN seq[k] => seq2[k] = seq[k]

\* what a step of the program leaves alone
C7_Step ==
  /\ Kept(events, events')
  /\ Kept(anomalies, anomalies')
  /\ combined # <<>> => combined' = combined

\* the combined sequence is a rearrangement of events ++ anomalies, the
\* former flagged "false" and the latter "true", and the file holds its
\* rows in its order
C7_Combined ==
  /\ Returned =>
       /\ BagOf(combined) = BagOf(events \o anomalies)
       /\ \A k \in 1..Len(events) : events[k].is_injected_anomaly = "false"
       /\ \A k \in 1..Len(anomalies) : anomalies[k].is_injected_anomaly = "true"
  /\ pc = "done" =>
       /\ Len(csv) = Len(combined)
       /\ \A k \in 1..Len(csv) :
            \A n \in 1..Len(fieldnames) : csv[k][n] = combined[k][fieldnames[n]]

\* C7: the sequence inject_anomalies returns is a permutation of
\* events ++ anomalies; once a record is created no step (tagging,
\* shuffle, write_csv) changes its eight data fields; the only change is
\* the flag added, "false" on the input events and "true" on the
\* anomalies.
C7_Frame == []C7_Combined /\ [][C7_Step]_vars

\* a written run with normal rows whose shuffle moved records
C7_Witness ==
  /\ pc = "done"
  /\ rows > 0
  /\ combined # events \o anomalies
  /\ combined[1].is_injected_anomaly = "true"

\* a call of random_ip_from_cidr has returned
IpCalled == pc = "returned" /\ call.fn = "random_ip_from_cidr"

\* the block of a call with n as its address
WithAddr(net, n) == [net EXCEPT !.addr = n]

\* C8: the address returned lies in the block; for an IPv4 block of more
\* than 2 addresses it is neither the network nor the broadcast address
\* and lies in [network + 1, broadcast - 1]; for /31, /32 and IPv6 blocks
\* it lies in [network, network + num_addresses - 1].
C8_IpInBlock ==
  IpCalled =>
    LET net == call.net
        n == ip_int(net.version, call.result)
        lo == network_address(net)
        hi == broadcast_address(net)
    IN /\ network_address(WithAddr(net, n)) = lo
       /\ int_le(lo, n) /\ int_le(n, hi)
       /\ hi = int_add(lo, num_addresses(net) - 1)
       /\ net.version = 4 /\ num_addresses(net) > 2 =>
            /\ n # lo /\ n # hi
            /\ int_le(int_add(lo, 1), n) /\ int_le(n, int_sub(hi, 1))

\* a /31 block gave its last address, the one ipaddress calls broadcast
C8_Witness ==
  /\ IpCalled
  /\ call.net.version = 4
  /\ num_addresses(call.net) = 2
  /\ ip_int(4, call.result) = broadcast_address(call.net)

\* the weight of the first k items
RECURSIVE cumulative(_, _)
cumulative(items, k) ==
  IF k = 0 THEN 0 ELSE cumulative(items, k - 1) + items[k][2]

\* a call of weighted_choice has ended
WcCalled == pc = "returned" /\ call.fn = "weighted_choice"

\* C9: on a non-empty list of positive weights and a draw r in
\* [0, sum of weights), weighted_choice returns the first label whose
\* cumulative weight is >= r, from inside the loop (the fallback after
\* the loop is not reached); on an empty list it raises.
C9_WeightedChoice ==
  WcCalled =>
    LET items == call.items
        size == Len(items)
        r == call.p * cumulative(items, size)
    IN IF size = 0
       THEN call.result.kind = "raise"
       ELSE /\ call.result.kind = "return"
            /\ call.result.line = 41
            /\ \E k \in 1..size :
                 /\ call.result.value = items[k][1]
                 /\ cumulative(items, k) * 1000 >= r
                 /\ \A m \in 1..(k - 1) : cumulative(items, m) * 1000 < r

\* the draw fell exactly on the cumulative weight of the second of three
\* labels, which was returned
C9_Witness ==
  /\ WcCalled
  /\ Len(call.items) = 3
  /\ call.p * cumulative(call.items, 3) = cumulative(call.items, 2) * 1000
  /\ call.result.value = call.items[2][1]

====
